---- MODULE Spec2Model ----
(***************************************************************************)
(* Model of the Bazos scraper node (nodes/BazosScraper/BazosScraper.node.ts)*)
(*                                                                         *)
(* execute() walks the input items one at a time; for each it reads the    *)
(* parameters, validates the search term and runs scrapeBazos(), which     *)
(* fetches the result pages sequentially and hands every listing fragment  *)
(* to parseListing().  Every `await` of the code is a step of the model:   *)
(* the HTTP response (or failure) is the nondeterministic input of the     *)
(* step.                                                                   *)
(*                                                                         *)
(* Text values are sequences of one-character strings.  An optional value  *)
(* (null in the code) is the empty sequence, a present value v is <<v>>.   *)
(* Instants are whole hours of local wall-clock time since 1970-01-01.     *)
(***************************************************************************)
EXTENDS Integers, Sequences, FiniteSets, TLC

\* ------------------------------------------------------------------------
\* Bounds of the model
\* ------------------------------------------------------------------------

\* longest result page (in listing fragments) served in the small scenarios
MaxFrags == 2
\* largest resultsLimit of the small scenarios
MaxLimit == 2
\* number of input items of the batch scenarios
MaxItems == 2
\* resultsLimit of the scenario that asks for more than the documented maximum
BigLimit == 2000

\* ------------------------------------------------------------------------
\* Program constants
\* ------------------------------------------------------------------------

PageSize == 20
OffsetCeiling == 1000
\* 'Maximum number of results to return (max 1000)'
DocumentedMax == 1000
FallbackTotal == 100
MinYear == 2000
MaxYear == 2030

Null == << >>
Some(v) == <<v>>

Min(a, b) == IF a < b THEN a ELSE b
Max(a, b) == IF a > b THEN a ELSE b

\* ------------------------------------------------------------------------
\* Calendar arithmetic of the JavaScript Date object (proleptic Gregorian)
\* ------------------------------------------------------------------------

\* day number (days since 1970-01-01) of the civil date y-m-d
DaysFromCivil(y, m, d) ==
    LET yy  == IF m <= 2 THEN y - 1 ELSE y
        era == yy \div 400
        yoe == yy - era * 400
        mp  == IF m > 2 THEN m - 3 ELSE m + 9
        doy == (153 * mp + 2) \div 5 + d - 1
        doe == yoe * 365 + yoe \div 4 - yoe \div 100 + doy
    IN  era * 146097 + doe - 719468

\* civil date of a day number
CivilFromDays(z) ==
    LET zz  == z + 719468
        era == zz \div 146097
        doe == zz - era * 146097
        yoe == (doe - doe \div 1460 + doe \div 36524 - doe \div 146096) \div 365
        doy == doe - (365 * yoe + yoe \div 4 - yoe \div 100)
        mp  == (5 * doy + 2) \div 153
        d   == doy - (153 * mp + 2) \div 5 + 1
        m   == IF mp < 10 THEN mp + 3 ELSE mp - 9
        y   == yoe + era * 400 + (IF m <= 2 THEN 1 ELSE 0)
    IN  [y |-> y, m |-> m, d |-> d]

\* new Date(year, monthIndex, day): local midnight; a day past the end of the
\* month rolls over into the following month
NewDate(yearNum, monthNum, dayNum) ==
    (DaysFromCivil(yearNum, monthNum, 1) + dayNum - 1) * 24

\* getFullYear / getMonth + 1 / getDate of a local instant
LocalFields(t) == CivilFromDays(t \div 24)

\* date.toISOString().split('T')[0]: the calendar day of the instant in UTC;
\* tz is the host's offset, local time = UTC + tz hours
ToISODate(t, tz) == CivilFromDays((t - tz) \div 24)

\* cutoffDate.setHours(0, 0, 0, 0)
StartOfDay(t) == (t \div 24) * 24

\* ------------------------------------------------------------------------
\* Date Interpreter
\* ------------------------------------------------------------------------

\* The raw date text of a fragment, by the form the regular expressions of
\* parseAndValidateDate recognise in it:
\*   "abs"   D.M.YYYY (fields d, m, y)      "dnes"   today
\*   "vcera" yesterday                       "hours"  pred n hodinami
\*   "dni"   pred n dnami (sk)               "dny"    pred n dny (cz)
\*   "other" none of these
DateText(kind, d, m, y, n) == [kind |-> kind, d |-> d, m |-> m, y |-> y, n |-> n]

\* parseAndValidateDate(dateText): the local instant, or Null
ParseAndValidateDate(dateText, nowT) ==
    CASE dateText.kind = "abs" ->
            IF /\ dateText.y >= MinYear /\ dateText.y <= MaxYear
               /\ dateText.m >= 1 /\ dateText.m <= 12
               /\ dateText.d >= 1 /\ dateText.d <= 31
            THEN LET tempDate == NewDate(dateText.y, dateText.m, dateText.d)
                 IN  IF LocalFields(tempDate) =
                            [y |-> dateText.y, m |-> dateText.m, d |-> dateText.d]
                     THEN Some(tempDate)
                     ELSE Null
            ELSE Null
      [] dateText.kind = "dnes"  -> Some(StartOfDay(nowT))
      [] dateText.kind = "vcera" -> Some(nowT - 24)
      [] dateText.kind = "hours" -> Some(nowT - dateText.n)
      [] dateText.kind = "dni"   -> Some(nowT - 24 * dateText.n)
      [] dateText.kind = "dny"   -> Some(nowT - 24 * dateText.n)
      [] OTHER -> Null

\* cutoffDate of isWithinTimeFilter: start of the day publishedDays days ago
CutoffDate(publishedDays, nowT) == StartOfDay(nowT - 24 * publishedDays)

\* isWithinTimeFilter(dateText, publishedDays)
IsWithinTimeFilterWide(dateText, publishedDays, nowT) ==
    LET listingDate == ParseAndValidateDate(dateText, nowT)
    IN  IF listingDate = Null
        THEN TRUE
        ELSE listingDate[1] >= CutoffDate(publishedDays + 1, nowT)
IsWithinTimeFilter(dateText, publishedDays, nowT) ==
    LET listingDate == ParseAndValidateDate(dateText, nowT)
    IN  IF listingDate = Null
        THEN TRUE
        ELSE listingDate[1] >= CutoffDate(publishedDays, nowT)

\* the `added` field of parseListing: the ISO date of the parsed instant, or
\* the digits and dots left of the raw text when it does not parse
Added(dateText, nowT, tz) ==
    LET parsedDate == ParseAndValidateDate(dateText, nowT)
    IN  IF parsedDate # Null
        THEN [iso |-> TRUE] @@ ToISODate(parsedDate[1], tz)
        ELSE [iso |-> FALSE, y |-> dateText.y, m |-> dateText.m, d |-> dateText.d]

\* ------------------------------------------------------------------------
\* Query Builder
\* ------------------------------------------------------------------------

Digits == <<"0", "1", "2", "3", "4", "5", "6", "7", "8", "9">>

\* the characters encodeURIComponent leaves alone (those the model uses)
Unreserved ==
    {Digits[k] : k \in 1..10} \cup
    {"a", "b", "d", "e", "l", "t", "H", "-", "_", ".", "!", "~", "*", "'", "(", ")"}

\* the UTF-8 percent escape of the other characters the model uses; "l-caron"
\* and "t-caron" are the letters U+013E and U+0165 of the Slovak submit label
PercentCode(c) ==
    CASE c = " "  -> <<"%", "2", "0">>
      [] c = "&"  -> <<"%", "2", "6">>
      [] c = "="  -> <<"%", "3", "D">>
      [] c = "%"  -> <<"%", "2", "5">>
      [] c = "+"  -> <<"%", "2", "B">>
      [] c = "l-caron"  -> <<"%", "C", "4", "%", "B", "E">>
      [] c = "t-caron"  -> <<"%", "C", "5", "%", "A", "5">>

RECURSIVE EncodeURIComponent(_)
EncodeURIComponent(s) ==
    IF s = << >> THEN << >>
    ELSE (IF Head(s) \in Unreserved THEN <<Head(s)>> ELSE PercentCode(Head(s)))
         \o EncodeURIComponent(Tail(s))

\* `${n}` of a non-negative integer
RECURSIVE NumStr(_)
NumStr(n) ==
    IF n < 10 THEN <<Digits[n + 1]>>
    ELSE NumStr(n \div 10) \o <<Digits[(n % 10) + 1]>>

Domain(country) == IF country = "cz" THEN "bazos.cz" ELSE "bazos.sk"

SubmitText(country) ==
    IF country = "cz" THEN <<"H", "l", "e", "d", "a", "t">>
    ELSE <<"H", "l-caron", "a", "d", "a", "t-caron">>

\* the query parameters joined with '&'; the keys and the fixed values are
\* one token each.  order 0 stands for the falsy values '' and 0.
UrlParams(p) ==
    <<"hledat", "=">> \o EncodeURIComponent(p.search)
    \o <<"&", "rubriky", "=", "www">>
    \o <<"&", "hlokalita", "=">> \o p.location
    \o <<"&", "humkreis", "=">> \o NumStr(p.distance)
    \o (IF p.minPrice # Null THEN <<"&", "cenaod", "=">> \o NumStr(p.minPrice[1]) ELSE << >>)
    \o (IF p.maxPrice # Null THEN <<"&", "cenado", "=">> \o NumStr(p.maxPrice[1]) ELSE << >>)
    \o <<"&", "Submit", "=">> \o EncodeURIComponent(SubmitText(p.country))
    \o <<"&", "order", "=">> \o (IF p.order # 0 THEN NumStr(p.order) ELSE << >>)
    \o <<"&", "kitx", "=", "ano">>

\* url of scrapeBazos and searchUrl of execute
BuildUrl(p) == <<"https://www.", Domain(p.country), "/search.php", "?">> \o UrlParams(p)

\* pageUrl of the pagination loop
PageUrl(u, off) == IF off = 0 THEN u ELSE u \o <<"&", "crz", "=">> \o NumStr(off)

\* ------------------------------------------------------------------------
\* Inputs: the items handed to execute() and the answers of the site
\* ------------------------------------------------------------------------

\* one input item: the raw node parameters of that item.  An unset number
\* field ('' in the editor) is Null.
Item(search, location, distance, minp, maxp, order, limit, days, full, country) ==
    [search |-> search, location |-> location, distance |-> distance,
     minPriceRaw |-> minp, maxPriceRaw |-> maxp, order |-> order,
     resultsLimit |-> limit, publishedDaysRaw |-> days,
     withFullDescriptions |-> full, country |-> country]

\* a listing fragment of a result page: the raw date text, the short
\* description and whether the fragment has a link to its detail page
Fragment(addedText, description, detailLink) ==
    [addedText |-> addedText, description |-> description, detailLink |-> detailLink]

Short == <<"a">>
Truncated == <<"a", ".", ".", ".">>

\* the host clock during the run: 2025-10-27 10:00 local time
NowSet == {NewDate(2025, 10, 27) + 10}
\* offsets of the host's local time from UTC, in hours
TzOffsets == {-5, 0, 1}

InWindow  == DateText("abs", 26, 10, 2025, 0)
Stale     == DateText("abs", 25, 10, 2025, 0)
Feb30     == DateText("abs", 30, 2, 2025, 0)
HoursAgo  == DateText("hours", 0, 0, 0, 40)
Yesterday == DateText("vcera", 0, 0, 0, 0)
NoDate    == DateText("other", 0, 0, 0, 0)

RECURSIVE SeqsUpTo(_, _)
SeqsUpTo(S, n) ==
    IF n = 0 THEN {<< >>}
    ELSE LET shorter == SeqsUpTo(S, n - 1)
         IN  shorter \cup {Append(q, x) : q \in {r \in shorter : Len(r) = n - 1}, x \in S}

TransportErrors == {<<"ETIMEDOUT">>, <<"404">>}

\* what a detail page yields: full description, seller name, phone
DetailPages ==
    {[fullDescription |-> <<"a", "b">>, name |-> <<"e">>, phone |-> <<"0", "9">>],
     [fullDescription |-> << >>, name |-> << >>, phone |-> << >>]}

\* A site is what the marketplace may answer during one run: the totals its
\* results-count banner may show (0: no banner, or one that does not parse),
\* the result pages and the detail pages it may serve.
RichFragments ==
    {Fragment(InWindow, Short, TRUE), Fragment(Stale, Short, TRUE),
     Fragment(InWindow, Truncated, TRUE), Fragment(Feb30, Truncated, FALSE)}

FullPage == [k \in 1..PageSize |-> Fragment(NoDate, Short, TRUE)]

\* date texts of every recognised form, valid and invalid
DatedTexts ==
    {DateText("abs", d, m, y, 0) : d \in {1, 25, 26, 27, 29, 30, 31}, m \in {1, 2, 10, 12, 13},
                                   y \in {1999, 2000, 2024, 2025, 2030, 2031}}
    \cup {DateText(k, 0, 0, 0, n) : k \in {"hours", "dni", "dny"}, n \in {0, 1, 2, 10, 40}}
    \cup {DateText(k, 0, 0, 0, 0) : k \in {"dnes", "vcera", "other"}}

Site(name) ==
    CASE name = "rich" ->
            [totals |-> {0, 1, 30},
             pages  |-> SeqsUpTo(RichFragments, MaxFrags),
             details |-> DetailPages]
      [] name = "large" ->
            [totals |-> {5 * OffsetCeiling},
             pages  |-> {FullPage},
             details |-> DetailPages]
      [] name = "dated" ->
            [totals |-> {1},
             pages  |-> {<<Fragment(t, Truncated, TRUE)>> : t \in DatedTexts},
             details |-> DetailPages]
      [] name = "small" ->
            [totals |-> {0, 3},
             pages  |-> {<< >>, <<Fragment(InWindow, Short, TRUE)>>},
             details |-> DetailPages]

\* ------------------------------------------------------------------------
\* State
\* ------------------------------------------------------------------------

VARIABLES
    items,                \* this.getInputData()
    continueOnFail,       \* this.continueOnFail()
    site,                 \* the marketplace answering (see Site)
    now,                  \* the host clock (new Date())
    tz,                   \* the host's offset from UTC
    i,                    \* index of the item execute() is at (0-based)
    pc,                   \* "item", "count", "page", "frag", "detail", "done", "thrown"
    returnData,           \* the output items of execute()
    thrown,               \* the error execute() threw, Null if none
    url,                  \* scrapeBazos: the search URL
    totalResults,         \* scrapeBazos: the total, or the fallback
    originalTotalResults, \* scrapeBazos: the total as parsed
    actualLimit,          \* scrapeBazos: min(totalResults, resultsLimit)
    offset,               \* scrapeBazos: the pagination offset
    listings,             \* scrapeBazos: the accumulator
    page,                 \* scrapeBazos: listingElements of the current page
    elem,                 \* scrapeBazos: index in listingElements (0-based)
    pageHasValidResults,  \* scrapeBazos: a listing of this page was accepted
    pending,              \* parseListing: the listing waiting for its detail page
    requests              \* every HTTP request issued so far, with its outcome

env == <<items, continueOnFail, site, now, tz>>
locals == <<url, totalResults, originalTotalResults, actualLimit, offset, listings,
            page, elem, pageHasValidResults, pending>>
vars == <<items, continueOnFail, site, now, tz, i, pc, returnData, thrown, url,
          totalResults, originalTotalResults, actualLimit, offset, listings, page,
          elem, pageHasValidResults, pending, requests>>

NoListing == [addedText |-> NoDate, added |-> [iso |-> FALSE, y |-> 0, m |-> 0, d |-> 0],
              description |-> << >>, fullDescription |-> << >>,
              name |-> << >>, phone |-> << >>]

\* the local variables of scrapeBazos before its first statement, and after
\* the call has ended
FreshLocals ==
    /\ url' = << >>
    /\ totalResults' = 0
    /\ originalTotalResults' = 0
    /\ actualLimit' = 0
    /\ offset' = 0
    /\ listings' = << >>
    /\ page' = << >>
    /\ elem' = 0
    /\ pageHasValidResults' = FALSE
    /\ pending' = NoListing

\* ------------------------------------------------------------------------
\* Initial states
\* ------------------------------------------------------------------------

Start ==
    /\ i = 0
    /\ pc = IF Len(items) > 0 THEN "item" ELSE "done"
    /\ returnData = << >>
    /\ thrown = Null
    /\ url = << >>
    /\ totalResults = 0
    /\ originalTotalResults = 0
    /\ actualLimit = 0
    /\ offset = 0
    /\ listings = << >>
    /\ page = << >>
    /\ elem = 0
    /\ pageHasValidResults = FALSE
    /\ pending = NoListing
    /\ requests = << >>

Term == <<"a">>

\* one item, every combination of limit, time window, order and detail flag,
\* against a site that serves every short page
RichItems ==
    {Item(Term, << >>, 25, Null, Null, order, limit, days, full, "sk") :
        order \in {0, 1, 2}, limit \in 1..MaxLimit, days \in {Null, Some(1)},
        full \in BOOLEAN}

InitRich ==
    /\ items \in {<<it>> : it \in RichItems}
    /\ site = "rich"
    /\ tz = 1

\* a batch of items, some without a search term
BatchItems ==
    {Item(search, << >>, 25, Null, Null, 0, 1, days, FALSE, "sk") :
        search \in {<< >>, Term}, days \in {Null, Some(0)}}

InitBatch ==
    /\ items \in UNION {[1..n -> BatchItems] : n \in 0..MaxItems}
    /\ site = "small"
    /\ tz = 1

\* one item that asks for more listings than the documented maximum
InitLarge ==
    /\ items = <<Item(Term, << >>, 25, Null, Null, 0, BigLimit, Null, FALSE, "sk")>>
    /\ site = "large"
    /\ tz = 1

\* one item, every combination of the filters that go into the URL
QueryItems ==
    {Item(search, location, distance, minp, maxp, order, 1, Null, FALSE, country) :
        search \in {Term, <<"a", " ", "b">>, <<"a", "&", "b", "=", "1">>},
        location \in {<< >>, <<"8", "1", "1", "0", "1">>, <<"8", "1", "1", " ", "0", "1">>,
                      <<"a", "&", "b">>, <<"1", "%">>},
        distance \in {0, 25},
        minp \in {Null, Some(0), Some(100)},
        maxp \in {Null, Some(0)},
        order \in {0, 1, 2},
        country \in {"sk", "cz"}}

InitQuery ==
    /\ items \in {<<it>> : it \in QueryItems}
    /\ site = "small"
    /\ tz = 1

\* one item with or without a time window, on every host offset, against a
\* site whose listings carry every form of date text
DatedItems ==
    {Item(Term, << >>, 25, Null, Null, 0, 1, days, full, "sk") :
        days \in {Null, Some(1), Some(2)}, full \in BOOLEAN}

InitDated ==
    /\ items \in {<<it>> : it \in DatedItems}
    /\ site = "dated"
    /\ tz \in TzOffsets

Init ==
    /\ \/ InitRich
       \/ InitDated
       \/ InitBatch
       \/ InitLarge
       \/ InitQuery
    /\ continueOnFail \in BOOLEAN
    /\ now \in NowSet
    /\ Start

\* ------------------------------------------------------------------------
\* execute(): the parameters of the current item and the output items
\* ------------------------------------------------------------------------

\* the getNodeParameter calls of execute(); '' / null / undefined become null
ReadParams(item) ==
    [search |-> item.search,
     location |-> item.location,
     distance |-> item.distance,
     minPrice |-> IF item.minPriceRaw = Null THEN Null ELSE item.minPriceRaw,
     maxPrice |-> IF item.maxPriceRaw = Null THEN Null ELSE item.maxPriceRaw,
     order |-> item.order,
     resultsLimit |-> item.resultsLimit,
     publishedDays |-> IF item.publishedDaysRaw = Null THEN Null ELSE item.publishedDaysRaw,
     withFullDescriptions |-> item.withFullDescriptions,
     country |-> item.country]

Params == ReadParams(items[i + 1])

\* publishedDays !== null && publishedDays > 0
WindowActive(p) == p.publishedDays # Null /\ p.publishedDays[1] > 0

\* if (!search)
SearchMissingIgnored(search) == FALSE
SearchMissing(search) == search = << >>

ValidationError == <<"Search term is required">>

\* `Failed to scrape Bazos: ${error.message}`
ScrapeError(message) == <<"Failed to scrape Bazos: ">> \o message

\* the output item of a successful scrape
ResultItem(p, ls, total) ==
    [json |-> [searchTerm |-> p.search,
               location |-> p.location,
               distance |-> p.distance,
               minPrice |-> p.minPrice,
               maxPrice |-> p.maxPrice,
               order |-> p.order,
               resultsLimit |-> p.resultsLimit,
               publishedDays |-> p.publishedDays,
               withFullDescriptions |-> p.withFullDescriptions,
               searchUrl |-> BuildUrl(p),
               listings |-> ls,
               totalFound |-> total,
               totalReturned |-> Len(ls)],
     pairedItem |-> i]

\* the output item of a failed item under continue-on-fail
ErrorItem(message) == [json |-> [error |-> message], pairedItem |-> i]

\* returnData.push(out) and the next turn of the for loop of execute()
Push(out) ==
    /\ returnData' = Append(returnData, out)
    /\ i' = i + 1
    /\ pc' = IF i + 1 < Len(items) THEN "item" ELSE "done"
    /\ thrown' = thrown
    /\ FreshLocals

\* the catch block of execute()
CatchPartial(message) ==
    IF pc = "item" THEN Push(ErrorItem(message))
    ELSE Push(ResultItem(Params, listings, originalTotalResults))
CatchLosing(message) ==
    /\ returnData' = <<ErrorItem(message)>>
    /\ i' = i + 1
    /\ pc' = IF i + 1 < Len(items) THEN "item" ELSE "done"
    /\ thrown' = thrown
    /\ FreshLocals
Catch(message) ==
    IF continueOnFail
    THEN Push(ErrorItem(message))
    ELSE /\ pc' = "thrown"
         /\ thrown' = Some(message)
         /\ returnData' = << >>
         /\ i' = i
         /\ FreshLocals

\* scrapeBazos returns { listings, totalResults: originalTotalResults }
ReturnGuardTotal(ls, total) == Push(ResultItem(Params, ls, totalResults))
Return(ls, total) == Push(ResultItem(Params, ls, total))

\* a step inside scrapeBazos
Goto(label, ls, off, pg, el, valid, pend) ==
    /\ pc' = label
    /\ listings' = ls
    /\ offset' = off
    /\ page' = pg
    /\ elem' = el
    /\ pageHasValidResults' = valid
    /\ pending' = pend
    /\ UNCHANGED <<i, returnData, thrown, url, totalResults, originalTotalResults,
                   actualLimit>>

\* a request of item i: "count" (the first fetch), "page" or "detail"; the
\* outcome is "ok", "empty" (a result page without fragments) or "error",
\* with the message of the transport error of a result-page fetch (the error
\* of a detail fetch goes to console.warn only)
Request(kind, off, outcome, message) ==
    [item |-> i, kind |-> kind, offset |-> off, outcome |-> outcome, message |-> message]

\* ------------------------------------------------------------------------
\* scrapeBazos(): the pagination loop
\* ------------------------------------------------------------------------

\* if (totalResults === 0) totalResults = Math.max(params.resultsLimit, 100)
TotalOrFallback(total, resultsLimit) ==
    IF total = 0 THEN Max(resultsLimit, FallbackTotal) ELSE total

\* const actualLimit = Math.min(totalResults, params.resultsLimit)
ActualLimit(total, resultsLimit) == Min(total, resultsLimit)

\* while (listings.length < actualLimit)
LoopCondition(n, limit) == n < limit

\* if (listings.length >= actualLimit) break
LimitReachedLate(n, limit) == n > limit
LimitReached(n, limit) == n >= limit

\* the stop on a page without an accepted listing (order 0: newest first)
EarlyStopAnyOrder(p, valid) == WindowActive(p) /\ ~valid
EarlyStop(p, valid) == WindowActive(p) /\ ~valid /\ p.order = 0

\* if (offset > totalResults) break;  if (offset > 1000) break
PastEndLate(off, total) == off > total + PageSize \/ off > OffsetCeiling
PastEnd(off, total) == off > total \/ off > OffsetCeiling

\* after the for loop over the fragments of a page: the early stop, the next
\* offset and its guards, and the loop condition
EndOfPage(ls, valid) ==
    IF EarlyStop(Params, valid)
    THEN Return(ls, originalTotalResults)
    ELSE IF PastEnd(offset + PageSize, totalResults)
    THEN Return(ls, originalTotalResults)
    ELSE IF LoopCondition(Len(ls), actualLimit)
    THEN Goto("page", ls, offset + PageSize, << >>, 0, FALSE, NoListing)
    ELSE Return(ls, originalTotalResults)

\* if (listingElements.length === 0) break
OnEmptyPageSkipped == EndOfPage(listings, FALSE)
OnEmptyPage == Return(listings, originalTotalResults)

\* after parseListing has returned for the fragment at index elem: the next
\* turn of the for loop, or the end of the page
AfterElement(ls, valid) ==
    IF elem + 1 < Len(page) /\ ~LimitReached(Len(ls), actualLimit)
    THEN Goto("frag", ls, offset, page, elem + 1, valid, NoListing)
    ELSE EndOfPage(ls, valid)

\* ------------------------------------------------------------------------
\* parseListing()
\* ------------------------------------------------------------------------

\* description.endsWith('...')
EndsWithEllipsis(description) ==
    /\ Len(description) >= 3
    /\ SubSeq(description, Len(description) - 2, Len(description)) = <<".", ".", ".">>

\* the time-window test of parseListing: TRUE when the fragment is skipped
Rejected(f, p, nowT) ==
    WindowActive(p) /\ ~IsWithinTimeFilter(f.addedText, p.publishedDays[1], nowT)

\* the listing as parseListing has it before the detail page is looked at.
\* addedText is not a field of the code's listing: it keeps the raw date text
\* the listing was parsed from.
ListingOf(f, nowT, tzv) ==
    [addedText |-> f.addedText,
     added |-> Added(f.addedText, nowT, tzv),
     description |-> f.description,
     fullDescription |-> << >>,
     name |-> << >>,
     phone |-> << >>]

\* if (withFullDescriptions && description.endsWith('...')) and a detail link
WantsDetailUnasked(f, p) == EndsWithEllipsis(f.description) /\ f.detailLink
WantsDetail(f, p) ==
    p.withFullDescriptions /\ EndsWithEllipsis(f.description) /\ f.detailLink

\* the catch block around the detail fetch: the failure is logged and the
\* listing goes on, unchanged, to the accumulator
OnDetailErrorDropped(ls, l) == ls
OnDetailError(ls, l) == Append(ls, l)

\* the fields taken from a detail page
Enriched(l, detail) ==
    [l EXCEPT !.fullDescription = detail.fullDescription,
              !.name = detail.name,
              !.phone = detail.phone]

\* ------------------------------------------------------------------------
\* Actions
\* ------------------------------------------------------------------------

\* execute(): read the parameters of item i, validate, enter scrapeBazos and
\* build the URL (up to the first await)
StartItem ==
    /\ pc = "item"
    /\ UNCHANGED <<env, requests>>
    /\ IF SearchMissing(Params.search)
       THEN Catch(ValidationError)
       ELSE /\ pc' = "count"
            /\ url' = BuildUrl(Params)
            /\ UNCHANGED <<i, returnData, thrown, totalResults, originalTotalResults,
                           actualLimit, offset, listings, page, elem,
                           pageHasValidResults, pending>>

\* the first fetch: the results-count banner, the fallback, the limit
CountFetch ==
    /\ pc = "count"
    /\ UNCHANGED env
    /\ \/ \E e \in TransportErrors :
            /\ requests' = Append(requests, Request("count", 0, "error", e))
            /\ Catch(ScrapeError(e))
       \/ \E t \in Site(site).totals :
            LET total == TotalOrFallback(t, Params.resultsLimit)
                limit == ActualLimit(total, Params.resultsLimit)
            IN  /\ requests' = Append(requests, Request("count", 0, "ok", << >>))
                /\ IF LoopCondition(0, limit)
                   THEN /\ pc' = "page"
                        /\ totalResults' = total
                        /\ originalTotalResults' = t
                        /\ actualLimit' = limit
                        /\ UNCHANGED <<i, returnData, thrown, url, offset, listings,
                                       page, elem, pageHasValidResults, pending>>
                   ELSE Return(<< >>, t)

\* the fetch of the page at the current offset
PageFetch ==
    /\ pc = "page"
    /\ UNCHANGED env
    /\ \/ \E e \in TransportErrors :
            /\ requests' = Append(requests, Request("page", offset, "error", e))
            /\ Catch(ScrapeError(e))
       \/ \E pg \in Site(site).pages :
            /\ requests' = Append(requests,
                   Request("page", offset, IF Len(pg) = 0 THEN "empty" ELSE "ok", << >>))
            /\ IF Len(pg) = 0
               THEN OnEmptyPage
               ELSE Goto("frag", listings, offset, pg, 0, FALSE, NoListing)

\* parseListing on the fragment at index elem, up to its detail fetch
ParseFragment ==
    /\ pc = "frag"
    /\ UNCHANGED <<env, requests>>
    /\ LET f == page[elem + 1]
       IN  IF Rejected(f, Params, now)
           THEN AfterElement(listings, pageHasValidResults)
           ELSE IF WantsDetail(f, Params)
           THEN Goto("detail", listings, offset, page, elem, pageHasValidResults,
                     ListingOf(f, now, tz))
           ELSE AfterElement(Append(listings, ListingOf(f, now, tz)), TRUE)

\* the detail fetch of parseListing and the rest of the function
DetailFetch ==
    /\ pc = "detail"
    /\ UNCHANGED env
    /\ \/ /\ requests' = Append(requests, Request("detail", offset, "error", << >>))
          /\ AfterElement(OnDetailError(listings, pending), TRUE)
       \/ \E detail \in Site(site).details :
            /\ requests' = Append(requests, Request("detail", offset, "ok", << >>))
            /\ AfterElement(Append(listings, Enriched(pending, detail)), TRUE)

Next ==
    \/ StartItem
    \/ CountFetch
    \/ PageFetch
    \/ ParseFragment
    \/ DetailFetch

Spec == Init /\ [][Next]_vars

\* ------------------------------------------------------------------------
\* Properties
\* ------------------------------------------------------------------------

InScrape == pc \in {"count", "page", "frag", "detail"}

IsResult(out) == "listings" \in DOMAIN out.json
IsError(out) == DOMAIN out.json = {"error"}

Results == {returnData[k].json : k \in {j \in 1..Len(returnData) : IsResult(returnData[j])}}

Last(q) == q[Len(q)]

\* C1: at every point of the pagination loop, and in every result returned,
\* the number of listings is at most resultsLimit, and at most the reported
\* totalFound when that is greater than 0.
C1_ListingsWithinLimit ==
    /\ InScrape =>
          /\ Len(listings) <= Params.resultsLimit
          /\ originalTotalResults > 0 => Len(listings) <= originalTotalResults
    /\ \A r \in Results :
          /\ Len(r.listings) <= r.resultsLimit
          /\ r.totalReturned <= r.resultsLimit
          /\ r.totalFound > 0 => Len(r.listings) <= r.totalFound

\* a result cut at the site's total of 1 although 2 listings were asked for
\* and the page was not empty
C1_Witness ==
    /\ \E r \in Results :
          r.totalFound = 1 /\ r.resultsLimit = 2 /\ Len(r.listings) = 1
    /\ \E j \in 1..Len(requests) : requests[j].kind = "page" /\ requests[j].outcome = "ok"

\* the interpreted date of a listing lies in the window of n days
InsideWindow(l, n) ==
    LET listingDate == ParseAndValidateDate(l.addedText, now)
    IN  listingDate = Null \/ listingDate[1] >= StartOfDay(now - 24 * n)

\* C2: with a time window of N > 0 days, every listing in the accumulator (and
\* the one waiting for its detail page, and every listing returned) has an
\* interpreted date at or after the start of the day N days ago, or a date
\* text that could not be interpreted.
C2_OnlyListingsInsideWindow ==
    /\ (InScrape /\ WindowActive(Params)) =>
          /\ \A k \in 1..Len(listings) : InsideWindow(listings[k], Params.publishedDays[1])
          /\ pc = "detail" => InsideWindow(pending, Params.publishedDays[1])
    /\ \A r \in Results :
          (r.publishedDays # Null /\ r.publishedDays[1] > 0) =>
              \A k \in 1..Len(r.listings) : InsideWindow(r.listings[k], r.publishedDays[1])

\* a stale fragment has just been passed over, and the accumulator holds a
\* listing dated exactly at the cutoff
C2_Witness ==
    /\ pc = "frag"
    /\ WindowActive(Params)
    /\ elem = 1
    /\ page[1].addedText = Stale
    /\ Len(listings) = 1
    /\ ParseAndValidateDate(listings[1].addedText, now)
          = Some(CutoffDate(Params.publishedDays[1], now))

FailedFetches ==
    {j \in 1..Len(requests) :
        requests[j].kind \in {"count", "page"} /\ requests[j].outcome = "error"}

\* C3: once a result-page fetch of an item has failed, the item has ended in
\* the wrapped transport error: execute() has thrown it and returns nothing,
\* or (continue-on-fail) the item's output holds the error message and
\* nothing else.
C3_FetchFailureDiscardsListings ==
    \A j \in FailedFetches :
        LET wrapped == <<"Failed to scrape Bazos: ">> \o requests[j].message
            k == requests[j].item
        IN  IF continueOnFail
            THEN /\ Len(returnData) > k
                 /\ returnData[k + 1].json = [error |-> wrapped]
                 /\ thrown = Null
            ELSE /\ pc = "thrown"
                 /\ thrown = Some(wrapped)
                 /\ returnData = << >>

\* the page at offset 20 failed after the page at offset 0 had given a listing
C3_Witness ==
    /\ continueOnFail
    /\ Len(returnData) = 1
    /\ items[1].publishedDaysRaw = Null
    /\ \E j \in FailedFetches : requests[j].kind = "page" /\ requests[j].offset = 20

\* C4: one invocation never has more than 1000 listings.
C4_AtMostDocumentedMax ==
    /\ Len(listings) <= DocumentedMax
    /\ \A r \in Results : r.totalReturned <= DocumentedMax

\* --- reading a URL back -------------------------------------------------

\* index of the first c in q, 0 if there is none
FirstIndex(q, c) ==
    IF \E k \in 1..Len(q) : q[k] = c
    THEN CHOOSE k \in 1..Len(q) : q[k] = c /\ \A j \in 1..(k - 1) : q[j] # c
    ELSE 0

RECURSIVE SplitOn(_, _)
SplitOn(q, sep) ==
    LET k == FirstIndex(q, sep)
    IN  IF k = 0 THEN <<q>>
        ELSE <<SubSeq(q, 1, k - 1)>> \o SplitOn(SubSeq(q, k + 1, Len(q)), sep)

\* the query string of a URL, split on '&'
QueryParts(u) == SplitOn(SubSeq(u, FirstIndex(u, "?") + 1, Len(u)), "&")

PartKey(part) ==
    LET k == FirstIndex(part, "=") IN IF k = 0 THEN part ELSE SubSeq(part, 1, k - 1)
PartValue(part) ==
    LET k == FirstIndex(part, "=") IN IF k = 0 THEN << >> ELSE SubSeq(part, k + 1, Len(part))

HasParam(u, key) == \E j \in 1..Len(QueryParts(u)) : PartKey(QueryParts(u)[j]) = <<key>>

\* the value of the first parameter named key, as it stands in the URL
RawValue(u, key) ==
    LET parts == QueryParts(u)
        j == CHOOSE j \in 1..Len(parts) :
                 /\ PartKey(parts[j]) = <<key>>
                 /\ \A h \in 1..(j - 1) : PartKey(parts[h]) # <<key>>
    IN  PartValue(parts[j])

Escaped == {" ", "&", "=", "%", "+", "l-caron", "t-caron"}
URIError == <<"URIError">>

\* decodeURIComponent; URIError for a '%' that starts no escape
RECURSIVE PercentDecode(_)
PercentDecode(q) ==
    IF q = << >> THEN << >>
    ELSE IF Head(q) # "%"
    THEN LET rest == PercentDecode(Tail(q))
         IN  IF rest = URIError THEN URIError ELSE <<Head(q)>> \o rest
    ELSE LET fits == {c \in Escaped :
                        /\ Len(PercentCode(c)) <= Len(q)
                        /\ SubSeq(q, 1, Len(PercentCode(c))) = PercentCode(c)}
         IN  IF fits = {} THEN URIError
             ELSE LET c == CHOOSE c \in fits : TRUE
                      rest == PercentDecode(SubSeq(q, Len(PercentCode(c)) + 1, Len(q)))
                  IN  IF rest = URIError THEN URIError ELSE <<c>> \o rest

\* the parameters of a URL give back the filters p, and the free-text values
\* stand percent-encoded in it
UrlRecovers(u, p) ==
    /\ HasParam(u, "hledat") /\ HasParam(u, "hlokalita")
    /\ HasParam(u, "humkreis") /\ HasParam(u, "order")
    /\ RawValue(u, "hledat") = EncodeURIComponent(p.search)
    /\ RawValue(u, "hlokalita") = EncodeURIComponent(p.location)
    /\ PercentDecode(RawValue(u, "hledat")) = p.search
    /\ PercentDecode(RawValue(u, "hlokalita")) = p.location
    /\ PercentDecode(RawValue(u, "humkreis")) = NumStr(p.distance)
    /\ IF p.minPrice = Null THEN ~HasParam(u, "cenaod")
       ELSE HasParam(u, "cenaod")
            /\ PercentDecode(RawValue(u, "cenaod")) = NumStr(p.minPrice[1])
    /\ IF p.maxPrice = Null THEN ~HasParam(u, "cenado")
       ELSE HasParam(u, "cenado")
            /\ PercentDecode(RawValue(u, "cenado")) = NumStr(p.maxPrice[1])
    /\ PercentDecode(RawValue(u, "order")) = (IF p.order = 0 THEN << >> ELSE NumStr(p.order))

\* C5: the search URL gives back the search term, post code, distance, prices
\* and order when its query string is split on '&' and '=' and the values
\* are percent-decoded; search term and post code stand percent-encoded in
\* it; a price of 0 is present and an unset price is absent.
C5_UrlRoundTrip ==
    /\ (pc \in {"count", "page", "frag", "detail"}) => UrlRecovers(url, Params)
    /\ \A r \in Results :
          UrlRecovers(r.searchUrl,
                      [search |-> r.searchTerm, location |-> r.location,
                       distance |-> r.distance, minPrice |-> r.minPrice,
                       maxPrice |-> r.maxPrice, order |-> r.order])

\* the added field is the ISO form of the day the date text names
SameCalendarDay(l) ==
    (l.addedText.kind = "abs" /\ ParseAndValidateDate(l.addedText, now) # Null) =>
        l.added = [iso |-> TRUE, y |-> l.addedText.y, m |-> l.addedText.m,
                   d |-> l.addedText.d]

\* C6: a listing whose date text is a valid absolute date D.M.YYYY has the
\* ISO form of that same calendar day in its added field, on every host
\* offset from UTC.
C6_AddedIsSameCalendarDay ==
    /\ \A k \in 1..Len(listings) : SameCalendarDay(listings[k])
    /\ \A r \in Results : \A k \in 1..Len(r.listings) : SameCalendarDay(r.listings[k])

\* the step in which the detail fetch of the fragment at index elem fails
DetailFetchFails ==
    /\ pc = "detail"
    /\ Len(requests') = Len(requests) + 1
    /\ Last(requests').kind = "detail"
    /\ Last(requests').outcome = "error"

\* the accumulator after a step: the one of the loop, or the one the scrape
\* has returned in this step
ListingsAfter ==
    IF pc' \in {"page", "frag", "detail"} THEN listings'
    ELSE IF Len(returnData') > 0 /\ IsResult(Last(returnData'))
    THEN Last(returnData').json.listings
    ELSE << >>

\* C7: when the detail fetch of a listing fails, nothing is thrown, the
\* listing is appended to the accumulator with the short description of its
\* fragment and empty fullDescription, name and phone, and the loop goes on
\* with the next fragment of the page if there is one and the limit allows.
C7_DetailFailureKeepsListing ==
    [][DetailFetchFails =>
          /\ pc' # "thrown"
          /\ thrown' = Null
          /\ Len(ListingsAfter) = Len(listings) + 1
          /\ SubSeq(ListingsAfter, 1, Len(listings)) = listings
          /\ Last(ListingsAfter).description = page[elem + 1].description
          /\ Last(ListingsAfter).addedText = page[elem + 1].addedText
          /\ Last(ListingsAfter).fullDescription = << >>
          /\ Last(ListingsAfter).name = << >>
          /\ Last(ListingsAfter).phone = << >>
          /\ (elem + 1 < Len(page) /\ Len(listings) + 1 < actualLimit) =>
                (pc' = "frag" /\ elem' = elem + 1 /\ page' = page)
          /\ pc' \in {"item", "done"} =>
                (Len(returnData') = Len(returnData) + 1 /\ IsResult(Last(returnData')))
    ]_vars

\* the detail fetch of the first fragment has failed, its listing is in the
\* accumulator and the second fragment of the page is next
C7_Witness ==
    /\ pc = "frag"
    /\ elem = 1
    /\ Len(requests) > 0
    /\ Last(requests).kind = "detail"
    /\ Last(requests).outcome = "error"
    /\ Len(listings) > 0
    /\ Last(listings).description = Truncated
    /\ Last(listings).fullDescription = << >>
    /\ page[1].description = Truncated

\* requests of item k for a result page, by outcome
PageRequests(k) == {j \in 1..Len(requests) : requests[j].item = k /\ requests[j].kind = "page"}

FirstPageEmpty(k) ==
    \E j \in PageRequests(k) : requests[j].offset = 0 /\ requests[j].outcome = "empty"

\* C8: when the page at offset 0 of an item has no listing fragment, no page
\* at an offset above 0 is requested for the item, no request follows for it,
\* and its result has an empty listings array and totalReturned = 0.
C8_EmptyFirstPageStops ==
    \A k \in 0..(Len(items) - 1) :
        FirstPageEmpty(k) =>
            /\ \A j \in PageRequests(k) : requests[j].offset = 0
            /\ \A j \in 1..Len(requests) :
                  (requests[j].item = k /\ requests[j].kind = "page") =>
                      \A h \in (j + 1)..Len(requests) : requests[h].item # k
            /\ i > k \/ pc = "thrown"
            /\ Len(returnData) > k =>
                  /\ IsResult(returnData[k + 1])
                  /\ returnData[k + 1].json.listings = << >>
                  /\ returnData[k + 1].json.totalReturned = 0

\* an item has ended with an empty result after one empty page, with a
\* fallback total that would have allowed further pages
C8_Witness ==
    /\ FirstPageEmpty(0)
    /\ Len(returnData) > 0
    /\ IsResult(returnData[1])
    /\ returnData[1].json.totalFound = 0
    /\ returnData[1].json.listings = << >>

\* C9: for an item with an empty search term no HTTP request is ever issued,
\* and the item ends in the validation error: thrown by execute(), or as the
\* item's output under continue-on-fail.
C9_EmptySearchNoRequest ==
    \A k \in 0..(Len(items) - 1) :
        items[k + 1].search = << >> =>
            /\ \A j \in 1..Len(requests) : requests[j].item # k
            /\ i = k => pc \in {"item", "thrown"}
            /\ (i = k /\ pc = "thrown") => thrown = Some(ValidationError)
            /\ i > k =>
                  (continueOnFail /\ (Len(returnData) > k =>
                      returnData[k + 1] = [json |-> [error |-> ValidationError],
                                           pairedItem |-> k]))

\* the second item of a batch, without a search term, has ended in the
\* validation error after the first item had issued its requests
C9_Witness ==
    /\ Len(items) >= 2
    /\ i = 2
    /\ items[2].search = << >>
    /\ items[1].search # << >>
    /\ returnData[2].json = [error |-> ValidationError]
    /\ Len(requests) > 0
    /\ \A j \in 1..Len(requests) : requests[j].item = 0

\* the output at position k is the one of input item k - 1
OutputOfItem(k) ==
    LET out == returnData[k]
        it == ReadParams(items[k])
        failed == {j \in FailedFetches : requests[j].item = k - 1}
    IN  /\ out.pairedItem = k - 1
        /\ \/ /\ IsError(out)
              /\ \/ it.search = << >> /\ out.json.error = ValidationError
                 \/ \E j \in failed :
                       out.json.error = <<"Failed to scrape Bazos: ">> \o requests[j].message
           \/ /\ IsResult(out)
              /\ failed = {}
              /\ it.search # << >>
              /\ out.json.searchTerm = it.search
              /\ out.json.resultsLimit = it.resultsLimit
              /\ out.json.publishedDays = it.publishedDays
              /\ out.json.totalReturned = Len(out.json.listings)

C10_State ==
    continueOnFail =>
        /\ pc # "thrown" /\ thrown = Null
        /\ Len(returnData) = i
        /\ i <= Len(items)
        /\ pc = "done" <=> i = Len(items)
        /\ \A k \in 1..Len(returnData) : OutputOfItem(k)
        /\ \A j \in 1..Len(requests) :
              /\ requests[j].item <= i
              /\ pc \in {"item", "done"} => requests[j].item < i
              /\ \A h \in 1..j : requests[h].item <= requests[j].item
        /\ pc = "item" => (listings = << >> /\ offset = 0 /\ totalResults = 0
                           /\ originalTotalResults = 0 /\ url = << >>)

C10_Step ==
    continueOnFail =>
        /\ i' \in {i, i + 1}
        /\ i' = i => returnData' = returnData
        /\ i' = i + 1 => (Len(returnData') = i + 1 /\ SubSeq(returnData', 1, i) = returnData)

\* C10: under continue-on-fail execute() never throws; the outputs are one
\* per finished item, in input order, each paired with its input and holding
\* that item's result or that item's error; an output once pushed is never
\* changed; every request of an item is issued after all earlier items have
\* finished and before any later item starts; every item starts from fresh
\* scrape state.
C10_OneOutputPerItemInOrder == [](C10_State) /\ [][C10_Step]_vars

\* a batch of two has finished: the first item failed on a fetch, the second
\* returned a listing
C10_Witness ==
    /\ continueOnFail
    /\ pc = "done"
    /\ Len(items) = 2
    /\ Len(returnData) = 2
    /\ IsError(returnData[1])
    /\ returnData[1].json.error # ValidationError
    /\ IsResult(returnData[2])
    /\ Len(returnData[2].json.listings) = 1

\* the requests of item k for a result page in the loop, in order
PageRequestSeq(k) ==
    SelectSeq(requests, LAMBDA r : r.item = k /\ r.kind = "page")

\* the total that guards the pagination of a returned result
GuardTotal(r) ==
    IF r.totalFound = 0
    THEN (IF r.resultsLimit > FallbackTotal THEN r.resultsLimit ELSE FallbackTotal)
    ELSE r.totalFound

C11_State ==
    \A k \in 0..(Len(items) - 1) :
        LET pr == PageRequestSeq(k)
        IN  /\ \A n \in 1..Len(pr) :
                  /\ pr[n].offset = PageSize * (n - 1)
                  /\ pr[n].offset <= OffsetCeiling
            /\ Len(pr) <= (OffsetCeiling \div PageSize) + 1
            /\ (k = i /\ pc \in {"page", "frag", "detail"}) =>
                  /\ offset <= totalResults
                  /\ offset <= OffsetCeiling
                  /\ \A n \in 1..Len(pr) : pr[n].offset <= totalResults
            /\ (Len(returnData) > k /\ IsResult(returnData[k + 1])) =>
                  \A n \in 1..Len(pr) : pr[n].offset <= GuardTotal(returnData[k + 1].json)

\* how far execute() has come: the item, the requests issued, the place in
\* the code between two requests, the fragment
PcRank ==
    CASE pc = "item" -> 0
      [] pc = "count" -> 1
      [] pc = "frag" -> 2
      [] pc \in {"detail", "page"} -> 3
      [] OTHER -> 4

LexLess(a, b) ==
    \E n \in 1..Len(a) : a[n] < b[n] /\ \A h \in 1..(n - 1) : a[h] = b[h]

\* execute() is at a place where its next step can be taken: an item to
\* read, a fetch to settle, a fragment to parse
C11_CanStep ==
    \/ pc = "item" /\ i < Len(items)
    \/ pc \in {"count", "page", "detail"} /\ i < Len(items)
    \/ pc = "frag" /\ i < Len(items) /\ elem < Len(page)

\* every step brings execute() further
C11_Progress ==
    LexLess(<<i, Len(requests), PcRank, elem>>, <<i', Len(requests'), PcRank', elem'>>)

\* C11: the pages of an item are requested at the offsets 0, 20, 40, ..., none
\* above the total (or the fallback) and none above 1000, so at most 51 pages
\* per item; and the scrape terminates when every fetch returns: until
\* execute() has ended a step is always possible, and every step brings it
\* further in a bounded order (item, requests issued, place, fragment).
C11_BoundedPagination ==
    /\ [](C11_State /\ (pc \in {"done", "thrown"} \/ C11_CanStep))
    /\ [][C11_Progress]_vars

\* the run has ended after the page at offset 1000, the 51st, was requested
C11_Witness ==
    /\ pc = "done"
    /\ Len(PageRequestSeq(0)) = (OffsetCeiling \div PageSize) + 1
    /\ Last(PageRequestSeq(0)).offset = OffsetCeiling

\* the step that ends the for loop over a page none of whose fragments was
\* accepted (the page has at least one fragment: the loop was entered)
PageEndsWithoutListing ==
    /\ pc \in {"frag", "detail"}
    /\ pc' \notin {"frag", "detail"}
    /\ ~pageHasValidResults
    /\ Len(ListingsAfter) = Len(listings)

\* C12: at the end of a page with fragments but no accepted listing: with a
\* time window and the order newest the scrape returns and no further page is
\* requested; with a price order the page at the next offset is requested
\* whenever the offset guards and the limit allow it.
C12_EarlyStopOnlyWhenNewest ==
    [][PageEndsWithoutListing =>
          /\ (WindowActive(Params) /\ Params.order = 0) =>
                /\ pc' \in {"item", "done"}
                /\ Len(returnData') = Len(returnData) + 1
                /\ IsResult(Last(returnData'))
                /\ requests' = requests
          /\ (Params.order \in {1, 2}
              /\ offset + PageSize <= totalResults
              /\ offset + PageSize <= OffsetCeiling
              /\ Len(listings) < actualLimit) =>
                (pc' = "page" /\ offset' = offset + PageSize /\ listings' = listings)
    ]_vars

\* newest first with a time window: the scrape has returned after one page
\* of stale fragments although the fallback total allowed further pages
C12_Witness ==
    /\ pc = "done"
    /\ Len(items) = 1
    /\ items[1].order = 0
    /\ items[1].publishedDaysRaw = Some(1)
    /\ Len(returnData) = 1
    /\ IsResult(returnData[1])
    /\ returnData[1].json.totalFound = 0
    /\ returnData[1].json.listings = << >>
    /\ Len(PageRequestSeq(0)) = 1
    /\ PageRequestSeq(0)[1].outcome = "ok"

\* the step that issues a request for a detail page
DetailRequested ==
    /\ Len(requests') = Len(requests) + 1
    /\ Last(requests').kind = "detail"

\* C13: a detail page is requested only for the fragment being parsed, with
\* the full-details flag set, a short description ending in '...', and a date
\* text that passes the time window (inside it, or not interpretable, or no
\* window active); none is requested for a fragment the window rejects.
C13_DetailOnlyForAcceptedTruncated ==
    [][DetailRequested =>
          /\ pc = "detail"
          /\ Last(requests').item = i
          /\ Params.withFullDescriptions
          /\ LET f == page[elem + 1]
                 d == f.description
             IN  /\ Len(d) >= 3
                 /\ d[Len(d) - 2] = "." /\ d[Len(d) - 1] = "." /\ d[Len(d)] = "."
                 /\ pending.addedText = f.addedText
                 /\ WindowActive(Params) => InsideWindow(pending, Params.publishedDays[1])
    ]_vars

\* with a time window, a detail page has been requested for a truncated
\* listing dated exactly at the cutoff
C13_Witness ==
    /\ Len(requests) > 0
    /\ Last(requests).kind = "detail"
    /\ Len(items) = 1
    /\ items[1].publishedDaysRaw = Some(1)
    /\ site = "dated"
    /\ Len(returnData) = 1
    /\ IsResult(returnData[1])
    /\ Len(returnData[1].json.listings) = 1
    /\ returnData[1].json.listings[1].addedText = InWindow

\* the step in which the first fetch of an item settles with a page
CountSettles == pc = "count" /\ pc' = "page"

\* the step in which scrapeBazos returns from the pagination loop
ScrapeReturns ==
    /\ pc \in {"page", "frag", "detail"}
    /\ pc' \in {"item", "done"}
    /\ Len(returnData') = Len(returnData) + 1
    /\ IsResult(Last(returnData'))

C14_State ==
    /\ pc \in {"page", "frag", "detail"} =>
          /\ originalTotalResults \in Site(site).totals
          /\ originalTotalResults > 0 =>
                /\ totalResults = originalTotalResults
                /\ (actualLimit = originalTotalResults \/ actualLimit = Params.resultsLimit)
                /\ actualLimit <= originalTotalResults
                /\ actualLimit <= Params.resultsLimit
          /\ originalTotalResults = 0 =>
                /\ totalResults >= Params.resultsLimit
                /\ totalResults >= FallbackTotal
                /\ (totalResults = Params.resultsLimit \/ totalResults = FallbackTotal)
                /\ actualLimit = Params.resultsLimit
    /\ \A r \in Results : r.totalFound \in Site(site).totals

\* C14: the total parsed from the banner of the first fetch (0 when it is
\* absent or does not parse) is kept unchanged through the scrape and is the
\* totalFound of the result; the fallback max(resultsLimit, 100) only takes
\* its place in the pagination guards, and under it the effective limit is
\* resultsLimit.
C14_ReportsParsedTotal ==
    /\ [](C14_State)
    /\ [][/\ (pc \in {"page", "frag", "detail"} /\ pc' \in {"page", "frag", "detail"}) =>
                /\ originalTotalResults' = originalTotalResults
                /\ totalResults' = totalResults
                /\ actualLimit' = actualLimit
          /\ ScrapeReturns =>
                Last(returnData').json.totalFound = originalTotalResults
       ]_vars

\* a result reports totalFound = 0 although pages up to offset 20 were read
\* under the fallback, and holds resultsLimit listings
C14_Witness ==
    /\ \E k \in 1..Len(returnData) :
          /\ IsResult(returnData[k])
          /\ returnData[k].json.totalFound = 0
          /\ returnData[k].json.resultsLimit = 2
          /\ returnData[k].json.totalReturned = 2
    /\ \E j \in 1..Len(requests) : requests[j].kind = "page" /\ requests[j].offset = 20

====
